---- MODULE Spec2Model ----
(***************************************************************************)
(* A model of cargo-edit's manifest core (src/src/manifest.rs): the upward *)
(* search for Cargo.toml / Cargo.lock, parsing of the manifest text into a *)
(* toml::Table, insertion of dependencies, and write_to_file.              *)
(*                                                                         *)
(* Text is a sequence of lines.  A line is a record with a kind:           *)
(*   "header"  [a.b]        (path = <<"a","b">>)                           *)
(*   "kv"      key = "val"                                                 *)
(*   "comment" # ...        "blank"  (empty line)                          *)
(*   "garbage" a line that is not TOML                                     *)
(*   "raw"     a bare value printed with no key (Display of a non-table)   *)
(* A toml::Value is a record with a tag: a String with its text in s, or a *)
(* Table whose entries are the function t (domain = the keys present).     *)
(* toml::Table is BTreeMap<String, Value>: it iterates in key order.       *)
(***************************************************************************)
EXTENDS Integers, Sequences, FiniteSets, TLC

VARIABLES
    file,       \* the manifest file on disk: its lines
    handle,     \* the read-write File handle: [open, pos]
    manifest,   \* the Manifest in memory: [some, data]
    last,       \* what the last operation was given and what it returned
    mutated,    \* whether insert_into_table / add_deps ran since the manifest was opened
    fsFiles,    \* the regular files of the directory tree (absolute paths)
    cwd,        \* the process's working directory (absolute path)
    found       \* what the last find_file / find_lock_file was given and returned

vars == <<file, handle, manifest, last, mutated, fsFiles, cwd, found>>

------------------------------------------------------------------------------
(* Bounds of the model *)

\* longest manifest text, in lines
MaxLines == 3
\* longest dependency list given to add_deps
MaxDeps == 3
\* depth of the directory tree
MaxDepth == 2
\* regular files in the directory tree
MaxFiles == 2

------------------------------------------------------------------------------
(* toml::Value and toml::Table *)

\* every key of the model, in the order BTreeMap<String, _> iterates them
KeyOrder == <<"dependencies", "metadata", "name", "package", "project", "serde">>

EmptyTable == [k \in {} |-> 0]

Str(s) == [tag |-> "String", s |-> s, t |-> EmptyTable]

Table(t) == [tag |-> "Table", s |-> "", t |-> t]

IsTable(v) == v.tag = "Table"

\* BTreeMap::insert
Put(t, k, v) == [x \in (DOMAIN t) \cup {k} |-> IF x = k THEN v ELSE t[x]]

\* BTreeMap::remove (the map that is left)
Remove(t, k) == [x \in (DOMAIN t) \ {k} |-> t[x]]

\* the keys of a table in iteration order
SortedKeys(t) == SelectSeq(KeyOrder, LAMBDA k : k \in DOMAIN t)

------------------------------------------------------------------------------
(* Lines of text *)

Header(path) == [kind |-> "header", path |-> path, key |-> "", val |-> ""]

KV(k, s) == [kind |-> "kv", path |-> <<>>, key |-> k, val |-> s]

Comment == [kind |-> "comment", path |-> <<>>, key |-> "", val |-> ""]

Blank == [kind |-> "blank", path |-> <<>>, key |-> "", val |-> ""]

Garbage == [kind |-> "garbage", path |-> <<>>, key |-> "", val |-> ""]

Raw(s) == [kind |-> "raw", path |-> <<>>, key |-> "", val |-> s]

------------------------------------------------------------------------------
(* toml's Display for Value, as write_to_file uses it ("{}").              *)
(* Printer::print writes the non-table entries of a table as `key = value` *)
(* lines, then every sub-table as a blank line (unless it is the very      *)
(* first thing printed), a `[stack.key]` header and its own print.  The    *)
(* stack of a Value printed on its own starts empty.                       *)

RECURSIVE PrintTables(_, _, _, _, _)
RECURSIVE PrintTable(_, _)

\* the first loop of Printer::print: the entries that are not tables
PrintScalars(t) ==
    LET ks == SelectSeq(SortedKeys(t), LAMBDA k : ~IsTable(t[k]))
    IN  [i \in 1..Len(ks) |-> KV(ks[i], t[ks[i]].s)]

\* the second loop of Printer::print, from the i-th entry on
PrintTables(t, ks, i, stack, space_out_first) ==
    IF i > Len(ks) THEN <<>>
    ELSE LET k == ks[i]
             here == IF IsTable(t[k])
                       THEN (IF space_out_first \/ i # 1 THEN <<Blank>> ELSE <<>>)
                            \o <<Header(Append(stack, k))>>
                            \o PrintTable(t[k].t, Append(stack, k))
                       ELSE <<>>
         IN  here \o PrintTables(t, ks, i + 1, stack, space_out_first)

PrintTable(t, stack) ==
    LET scalars == PrintScalars(t)
    IN  scalars \o PrintTables(t, SortedKeys(t), 1, stack, Len(scalars) > 0)

\* impl Display for Value
Display(v) == IF IsTable(v) THEN PrintTable(v.t, <<>>) ELSE <<Raw(v.s)>>

------------------------------------------------------------------------------
(* toml::Parser, as from_str uses it.  parse() reads `key = value` lines   *)
(* into the root table until the first header; at a header it reads the    *)
(* section's lines into a fresh table and then inserts that table under    *)
(* the header's keys.  A duplicate key or a redefined table pushes an      *)
(* error and parsing goes on; a line that is not TOML pushes an error and  *)
(* parse() returns None at once.  parse() returns Some only when no error  *)
(* was pushed.                                                             *)

ParserError(lo, desc, key) == [lo |-> lo, desc |-> desc, key |-> key]

NoError == ParserError(0, "", "")

None == [some |-> FALSE, data |-> EmptyTable]

Some(d) == [some |-> TRUE, data |-> d]

\* Parser::insert: a key of the table being read
ParserInsert(into, errors, key, value, lo) ==
    IF key \in DOMAIN into
      THEN [tab |-> into, errors |-> Append(errors, ParserError(lo, "duplicate key", key))]
      ELSE [tab |-> Put(into, key, value), errors |-> errors]

RECURSIVE ParserInsertTable(_, _, _, _, _, _)
\* Parser::recurse and Parser::insert_table: put `table` at `keys` below
\* `into`; `defined` holds the paths of the tables a header has defined
ParserInsertTable(into, keys, table, path, lo, defined) ==
    LET key == Head(keys)
        full == Append(path, key)
    IN  IF Len(keys) = 1
          THEN IF key \notin DOMAIN into
                 THEN [tab |-> Put(into, key, Table(table)), errs |-> <<>>,
                       defined |-> defined \cup {full}]
               ELSE IF IsTable(into[key])
                 THEN LET old == into[key].t
                          dups == SelectSeq(SortedKeys(table), LAMBDA k : k \in DOMAIN old)
                          merged == [k \in (DOMAIN old) \cup (DOMAIN table) |->
                                        IF k \in DOMAIN table THEN table[k] ELSE old[k]]
                          redef == IF full \in defined
                                     THEN <<ParserError(lo, "redefinition of table", key)>>
                                     ELSE <<>>
                      IN  [tab |-> Put(into, key, Table(merged)),
                           errs |-> redef \o [i \in 1..Len(dups) |->
                                        ParserError(lo, "duplicate key in table", dups[i])],
                           defined |-> defined]
               ELSE [tab |-> into,
                     errs |-> <<ParserError(lo, "duplicate key in table", key)>>,
                     defined |-> defined]
          ELSE IF key \in DOMAIN into /\ ~IsTable(into[key])
                 THEN [tab |-> into,
                       errs |-> <<ParserError(lo, "not previously a table", key)>>,
                       defined |-> defined]
               ELSE LET sub == IF key \in DOMAIN into THEN into[key].t ELSE EmptyTable
                        r == ParserInsertTable(sub, Tail(keys), table, full, lo, defined)
                    IN  [tab |-> Put(into, key, Table(r.tab)), errs |-> r.errs,
                         defined |-> r.defined]

\* the parser before the first line
ParserNew ==
    [ret |-> EmptyTable, defined |-> {}, errors |-> <<>>, failed |-> FALSE,
     inSec |-> FALSE, keys |-> <<>>, tab |-> EmptyTable, lo |-> 0]

\* the end of a section: insert_table of what was read since its header
ParserEndSection(p) ==
    IF ~p.inSec THEN p
    ELSE LET r == ParserInsertTable(p.ret, p.keys, p.tab, <<>>, p.lo, p.defined)
         IN  [p EXCEPT !.ret = r.tab, !.errors = p.errors \o r.errs,
                       !.defined = r.defined, !.inSec = FALSE]

\* one line of input
ParserLine(p, line, i) ==
    CASE line.kind \in {"comment", "blank"} -> p
      [] line.kind = "kv" ->
            IF p.inSec
              THEN LET r == ParserInsert(p.tab, p.errors, line.key, Str(line.val), i)
                   IN  [p EXCEPT !.tab = r.tab, !.errors = r.errors]
              ELSE LET r == ParserInsert(p.ret, p.errors, line.key, Str(line.val), i)
                   IN  [p EXCEPT !.ret = r.tab, !.errors = r.errors]
      [] line.kind = "header" ->
            [ParserEndSection(p) EXCEPT !.inSec = TRUE, !.keys = line.path,
                                        !.tab = EmptyTable, !.lo = i]
      [] OTHER ->
            [p EXCEPT !.errors = Append(p.errors, ParserError(i, "expected a key", "")),
                      !.failed = TRUE]

RECURSIVE ParserRun(_, _, _)
ParserRun(input, i, p) ==
    IF i > Len(input) \/ p.failed THEN p
    ELSE ParserRun(input, i + 1, ParserLine(p, input[i], i))

\* Parser::parse: the Option it returns and parser.errors afterwards
Parse(input) ==
    LET q == ParserRun(input, 1, ParserNew)
        p == IF q.failed THEN q ELSE ParserEndSection(q)
    IN  [value |-> IF ~p.failed /\ p.errors = <<>> THEN Some(p.ret) ELSE None,
         errors |-> p.errors]

\* from_str reporting the first element of parser.errors
from_str_first_error(input) ==
    LET p == Parse(input)
    IN  IF p.value.some
          THEN [status |-> "Ok", manifest |-> p.value, err |-> NoError]
        ELSE IF p.errors # <<>>
          THEN [status |-> "ParseError", manifest |-> None, err |-> Head(p.errors)]
        ELSE [status |-> "panic", manifest |-> None, err |-> NoError]

\* impl FromStr for Manifest
from_str(input) ==
    LET p == Parse(input)
        \* parser.errors.pop(), evaluated whether or not parse() succeeded
        popped == IF p.errors = <<>> THEN [some |-> FALSE, err |-> NoError]
                  ELSE [some |-> TRUE, err |-> p.errors[Len(p.errors)]]
    IN  IF p.value.some
          THEN [status |-> "Ok", manifest |-> p.value, err |-> NoError]
        ELSE IF popped.some
          THEN [status |-> "ParseError", manifest |-> None, err |-> popped.err]
        ELSE [status |-> "panic", manifest |-> None, err |-> NoError]

------------------------------------------------------------------------------
(* Manifest *)

\* insert_into_table storing a fresh table that holds the new entry alone
insert_into_table_fresh(data, table, dep) ==
    IF table \in DOMAIN data /\ ~IsTable(data[table])
      THEN [status |-> "ManifestError", data |-> data]
      ELSE [status |-> "Ok",
            data |-> Put(data, table, Table(Put(EmptyTable, dep[1], dep[2])))]

\* insert_into_table replacing a value that is not a table by a table
insert_into_table_overwrite(data, table, dep) ==
    LET old == IF table \in DOMAIN data /\ IsTable(data[table])
                 THEN data[table].t ELSE EmptyTable
    IN  [status |-> "Ok", data |-> Put(data, table, Table(Put(old, dep[1], dep[2])))]

\* Manifest::insert_into_table
insert_into_table(data, table, dep) ==
    LET m == IF table \in DOMAIN data THEN data
             ELSE Put(data, table, Table(EmptyTable))
    IN  IF IsTable(m[table])
          THEN [status |-> "Ok",
                data |-> Put(m, table, Table(Put(m[table].t, dep[1], dep[2])))]
          ELSE [status |-> "ManifestError", data |-> m]

RECURSIVE add_deps_from_all(_, _, _, _)
\* add_deps going through every entry and dropping the errors
add_deps_from_all(data, table, deps, i) ==
    IF i > Len(deps) THEN [status |-> "Ok", data |-> data, applied |-> i - 1]
    ELSE add_deps_from_all(insert_into_table(data, table, deps[i]).data,
                           table, deps, i + 1)

RECURSIVE add_deps_from(_, _, _, _)
\* the iterator of add_deps from the i-th dependency on: collect() into a
\* Result stops at the first Err
add_deps_from(data, table, deps, i) ==
    IF i > Len(deps) THEN [status |-> "Ok", data |-> data, applied |-> i - 1]
    ELSE LET r == insert_into_table(data, table, deps[i])
         IN  IF r.status = "Ok" THEN add_deps_from(r.data, table, deps, i + 1)
             ELSE [status |-> r.status, data |-> r.data, applied |-> i - 1]

\* Manifest::add_deps
add_deps(data, table, deps) == add_deps_from(data, table, deps, 1)

\* the removal trying "project" before "package"
RemovePrimary_project_first(toml) ==
    IF "project" \in DOMAIN toml
      THEN [some |-> TRUE, proj_header |-> "project", proj_data |-> toml["project"],
            toml |-> Remove(toml, "project")]
    ELSE IF "package" \in DOMAIN toml
      THEN [some |-> TRUE, proj_header |-> "package", proj_data |-> toml["package"],
            toml |-> Remove(toml, "package")]
    ELSE [some |-> FALSE, proj_header |-> "", proj_data |-> Str(""), toml |-> toml]

\* toml.remove("package") or else toml.remove("project"): the header, the
\* removed value and the table that is left
RemovePrimary(toml) ==
    IF "package" \in DOMAIN toml
      THEN [some |-> TRUE, proj_header |-> "package", proj_data |-> toml["package"],
            toml |-> Remove(toml, "package")]
    ELSE IF "project" \in DOMAIN toml
      THEN [some |-> TRUE, proj_header |-> "project", proj_data |-> toml["project"],
            toml |-> Remove(toml, "project")]
    ELSE [some |-> FALSE, proj_header |-> "", proj_data |-> Str(""), toml |-> toml]

\* the text write! formats: "[{}]\n{}{}"
Formatted(r) ==
    <<Header(<<r.proj_header>>)>> \o Display(r.proj_data) \o Display(Table(r.toml))

\* Write::write_all at the handle's position: what is there is overwritten,
\* what lies beyond the written text stays.  (The file is kept in lines, not
\* bytes: a written line takes the place of one line.)
WriteAt(content, pos, text) ==
    SubSeq(content, 1, pos) \o text
        \o SubSeq(content, pos + Len(text) + 1, Len(content))

\* write_to_file removing the primary section from self.data, not from a clone
write_to_file_no_clone(data, content, pos) ==
    LET r == RemovePrimary(data)
        text == Formatted(r)
    IN  IF r.some
          THEN [status |-> "Ok", content |-> WriteAt(content, 0, text),
                pos |-> Len(text), out |-> text, data |-> r.toml]
          ELSE [status |-> "ManifestError", content |-> content, pos |-> 0,
                out |-> <<>>, data |-> r.toml]

\* Manifest::write_to_file: the result, the file and handle afterwards, the
\* text written and self.data afterwards
write_to_file(data, content, pos) ==
    LET start == 0
        r == RemovePrimary(data)
        text == Formatted(r)
    IN  IF r.some
          THEN [status |-> "Ok", content |-> WriteAt(content, start, text),
                pos |-> start + Len(text), out |-> text, data |-> data]
          ELSE [status |-> "ManifestError", content |-> content, pos |-> start,
                out |-> <<>>, data |-> data]

------------------------------------------------------------------------------
(* Paths and the directory tree.  A path is std::path::PathBuf: absolute   *)
(* or relative, with its components; parent() and join() work on the       *)
(* components alone, and the file system resolves a relative path against  *)
(* the working directory.  A directory or a file of the tree is the        *)
(* sequence of names from the root.                                        *)

DirNames == {"a", "b"}

\* the directories of the tree: /, /a, /b, /a/a, /a/b, ...
Dirs ==
    {d \in UNION {[1..n -> DirNames] : n \in 0..MaxDepth} :
        \A i \in 1..(Len(d) - 1) : d[i] = "a"}

\* enum CargoFile and the file name search joins for it
CargoFile == {"Config", "Lock"}

FileName(f) == IF f = "Config" THEN "Cargo.toml" ELSE "Cargo.lock"

\* the places a regular file may be at
FilePaths == {Append(d, FileName(f)) : d \in Dirs, f \in CargoFile}

FileSystems == {fs \in SUBSET FilePaths : Cardinality(fs) <= MaxFiles}

PathBuf(abs, comps) == [abs |-> abs, comps |-> comps]

NoPath == PathBuf(FALSE, <<>>)

\* the place a path names for the file system
Resolve(wd, p) == IF p.abs THEN p.comps ELSE wd \o p.comps

\* fs::metadata: a file, a directory, or the io::Error of a path that names
\* nothing (the empty path names nothing)
Metadata(fs, wd, p) ==
    IF ~p.abs /\ p.comps = <<>> THEN "NotFound"
    ELSE IF Resolve(wd, p) \in fs THEN "file"
    ELSE IF Resolve(wd, p) \in Dirs THEN "dir"
    ELSE "NotFound"

\* Path::join
Join(p, name) == PathBuf(p.abs, Append(p.comps, name))

\* Path::parent: None for the root and for the empty path
HasParent(p) == p.comps # <<>>

Parent(p) == PathBuf(p.abs, SubSeq(p.comps, 1, Len(p.comps) - 1))

FindOk(p) == [status |-> "Ok", path |-> p]

FindErr(e) == [status |-> e, path |-> NoPath]

RECURSIVE search(_, _, _, _)
\* search: the file in this directory, or else the search of the parent.
\* (`or` evaluates the parent's search in every case; its result is used
\* only when fs::metadata failed.)
search(fs, wd, dir, f) ==
    LET manifest_path == Join(dir, FileName(f))
    IN  IF Metadata(fs, wd, manifest_path) # "NotFound" THEN FindOk(manifest_path)
        ELSE IF HasParent(dir) THEN search(fs, wd, Parent(dir), f)
        ELSE FindErr("ManifestError")

\* find searching upward from a specified path that names nothing
find_search_missing(fs, wd, specified, f) ==
    IF specified.some
      THEN IF Metadata(fs, wd, specified.path) = "file"
             THEN FindOk(specified.path)
             ELSE search(fs, wd, specified.path, f)
      ELSE search(fs, wd, PathBuf(TRUE, wd), f)

\* find; specified is the Option<&str>: [some, path]
find(fs, wd, specified, f) ==
    IF specified.some
      THEN LET md == Metadata(fs, wd, specified.path)
           IN  IF md = "NotFound" THEN FindErr("IoError")
               ELSE IF md = "file" THEN FindOk(specified.path)
               ELSE search(fs, wd, specified.path, f)
      ELSE \* env::current_dir() is absolute
           search(fs, wd, PathBuf(TRUE, wd), f)

\* Manifest::find_file: find, then open what it found for read and write
find_file(fs, wd, specified) == find(fs, wd, specified, "Config")

\* Manifest::find_lock_file
find_lock_file(fs, wd, specified) == find(fs, wd, specified, "Lock")

------------------------------------------------------------------------------
(* The inputs of the manifest specification *)

\* the lines a manifest text is made of
LineAlphabet ==
    {Header(<<"package">>), Header(<<"project">>), Header(<<"dependencies">>),
     Header(<<"package", "metadata">>), KV("name", "a"), KV("serde", "1"),
     Comment, Garbage}

Texts == UNION {[1..n -> LineAlphabet] : n \in 0..MaxLines}

\* the dependencies a caller hands over: (name, toml::Value)
Dependencies == {<<"serde", Str("1")>>, <<"serde", Str("2")>>}

DependencyLists == UNION {[1..n -> Dependencies] : n \in 0..MaxDeps}

\* the table names a caller hands over
TableNames == {"dependencies", "name"}

NoLast ==
    [op |-> "none", status |-> "", table |-> "", deps |-> <<>>, applied |-> 0,
     prev |-> EmptyTable, fprev |-> <<>>, out |-> <<>>, err |-> NoError,
     perrs |-> <<>>]

Closed == [open |-> FALSE, pos |-> 0]

\* the Option<&str> a caller hands over
NoneSpecified == [some |-> FALSE, path |-> NoPath]

Specified ==
    {NoneSpecified}
      \cup {[some |-> TRUE, path |-> PathBuf(abs, comps)] :
                abs \in BOOLEAN, comps \in Dirs \cup FilePaths}

NoFind ==
    [op |-> "none", file |-> "", specified |-> NoneSpecified, status |-> "",
     result |-> NoPath, parsed |-> FALSE]

------------------------------------------------------------------------------
(* The manifest specification: one run of the tool on a manifest file that *)
(* find has located.                                                       *)

Init ==
    /\ file \in Texts
    /\ handle = Closed
    /\ manifest = None
    /\ last = NoLast
    /\ mutated = FALSE
    /\ fsFiles = {}
    /\ cwd = <<>>
    /\ found = NoFind

\* Manifest::open, the file found: read_to_string of the whole file, then
\* data.parse(); the File it read from is dropped on return
Open ==
    /\ ~manifest.some
    /\ last.op = "none"
    /\ LET r == from_str(file)
       IN  /\ manifest' = r.manifest
           /\ last' = [NoLast EXCEPT !.op = "open", !.status = r.status,
                                     !.err = r.err, !.fprev = file,
                                     !.perrs = Parse(file).errors]
    /\ mutated' = FALSE
    /\ UNCHANGED <<file, handle, fsFiles, cwd, found>>

\* OpenOptions::new().read(true).write(true).open(path) of find_file, the
\* path found: a handle at the start of the file, the file not truncated
OpenOptionsOpen ==
    /\ ~handle.open
    /\ handle' = [open |-> TRUE, pos |-> 0]
    /\ UNCHANGED <<file, manifest, last, mutated, fsFiles, cwd, found>>

InsertIntoTable ==
    /\ manifest.some
    /\ \E table \in TableNames, dep \in Dependencies :
          LET r == insert_into_table(manifest.data, table, dep)
          IN  /\ manifest' = Some(r.data)
              /\ last' = [NoLast EXCEPT !.op = "insert_into_table",
                                        !.status = r.status, !.table = table,
                                        !.deps = <<dep>>, !.prev = manifest.data,
                                        !.fprev = file]
    /\ mutated' = TRUE
    /\ UNCHANGED <<file, handle, fsFiles, cwd, found>>

AddDeps ==
    /\ manifest.some
    /\ \E table \in TableNames, deps \in DependencyLists :
          LET r == add_deps(manifest.data, table, deps)
          IN  /\ manifest' = Some(r.data)
              /\ last' = [NoLast EXCEPT !.op = "add_deps", !.status = r.status,
                                        !.table = table, !.deps = deps,
                                        !.applied = r.applied,
                                        !.prev = manifest.data, !.fprev = file]
    /\ mutated' = TRUE
    /\ UNCHANGED <<file, handle, fsFiles, cwd, found>>

WriteToFile ==
    /\ manifest.some
    /\ handle.open
    /\ LET r == write_to_file(manifest.data, file, handle.pos)
       IN  /\ file' = r.content
           /\ handle' = [open |-> TRUE, pos |-> r.pos]
           /\ manifest' = Some(r.data)
           /\ last' = [NoLast EXCEPT !.op = "write_to_file", !.status = r.status,
                                     !.prev = manifest.data, !.fprev = file,
                                     !.out = r.out]
    /\ UNCHANGED <<mutated, fsFiles, cwd, found>>

Next ==
    \/ Open
    \/ OpenOptionsOpen
    \/ InsertIntoTable
    \/ WriteToFile

Spec == Init /\ [][Next]_vars

------------------------------------------------------------------------------
(* The dependency specification: any number of insert_into_table and       *)
(* add_deps calls on a manifest opened from one of a few texts.            *)

\* manifests with and without a dependency table, with another entry in it,
\* and with a top-level key that is not a table
DepTexts ==
    {<<>>,
     <<Header(<<"package">>), KV("name", "a")>>,
     <<Header(<<"package">>), Header(<<"dependencies">>), KV("serde", "1")>>,
     <<Header(<<"dependencies">>), KV("name", "a"), KV("serde", "2")>>,
     <<KV("name", "a"), Header(<<"package">>)>>,
     <<KV("name", "a"), Header(<<"dependencies">>), KV("name", "a")>>}

InitDeps ==
    /\ file \in DepTexts
    /\ handle = Closed
    /\ manifest = None
    /\ last = NoLast
    /\ mutated = FALSE
    /\ fsFiles = {}
    /\ cwd = <<>>
    /\ found = NoFind

NextDeps ==
    \/ Open
    \/ InsertIntoTable
    \/ AddDeps

SpecDeps == InitDeps /\ [][NextDeps]_vars

------------------------------------------------------------------------------
(* The find specification: one call of find_file, find_lock_file, open or  *)
(* open_lock_file in a directory tree.  Every file of the tree holds the   *)
(* same valid manifest text.                                               *)

InitFind ==
    /\ file = <<Header(<<"package">>), KV("name", "a")>>
    /\ handle = Closed
    /\ manifest = None
    /\ last = NoLast
    /\ mutated = FALSE
    /\ fsFiles \in FileSystems
    /\ cwd \in Dirs
    /\ found = NoFind

FindFile ==
    /\ found.op = "none"
    /\ \E specified \in Specified :
          LET r == find_file(fsFiles, cwd, specified)
          IN  /\ found' = [op |-> "find_file", file |-> "Config",
                           specified |-> specified, status |-> r.status,
                           result |-> r.path, parsed |-> FALSE]
              /\ handle' = [open |-> r.status = "Ok", pos |-> 0]
    /\ UNCHANGED <<file, manifest, last, mutated, fsFiles, cwd>>

FindLockFile ==
    /\ found.op = "none"
    /\ \E specified \in Specified :
          LET r == find_lock_file(fsFiles, cwd, specified)
          IN  /\ found' = [op |-> "find_lock_file", file |-> "Lock",
                           specified |-> specified, status |-> r.status,
                           result |-> r.path, parsed |-> FALSE]
              /\ handle' = [open |-> r.status = "Ok", pos |-> 0]
    /\ UNCHANGED <<file, manifest, last, mutated, fsFiles, cwd>>

\* Manifest::open: try!(find_file), read_to_string, parse
OpenPath ==
    /\ found.op = "none"
    /\ \E specified \in Specified :
          LET r == find_file(fsFiles, cwd, specified)
              m == from_str(file)
          IN  /\ found' = [op |-> "open", file |-> "Config",
                           specified |-> specified,
                           status |-> IF r.status = "Ok" THEN m.status ELSE r.status,
                           result |-> r.path, parsed |-> r.status = "Ok"]
              /\ manifest' = IF r.status = "Ok" THEN m.manifest ELSE None
    /\ UNCHANGED <<file, handle, last, mutated, fsFiles, cwd>>

\* Manifest::open_lock_file
OpenLockFilePath ==
    /\ found.op = "none"
    /\ \E specified \in Specified :
          LET r == find_lock_file(fsFiles, cwd, specified)
              m == from_str(file)
          IN  /\ found' = [op |-> "open_lock_file", file |-> "Lock",
                           specified |-> specified,
                           status |-> IF r.status = "Ok" THEN m.status ELSE r.status,
                           result |-> r.path, parsed |-> r.status = "Ok"]
              /\ manifest' = IF r.status = "Ok" THEN m.manifest ELSE None
    /\ UNCHANGED <<file, handle, last, mutated, fsFiles, cwd>>

NextFind ==
    \/ FindFile
    \/ FindLockFile
    \/ OpenPath
    \/ OpenLockFilePath

SpecFind == InitFind /\ [][NextFind]_vars

------------------------------------------------------------------------------
(* Claims *)

\* a line that emits the top-level key k with value v
EmitsKey(line, k, v) ==
    \/ line.kind = "kv" /\ line.key = k /\ ~IsTable(v) /\ line.val = v.s
    \/ line.kind = "header" /\ line.path = <<k>> /\ IsTable(v)

HasPrimary(d) == "package" \in DOMAIN d \/ "project" \in DOMAIN d

\* C1: when data has a top-level "package" or "project", write_to_file
\* succeeds and writes the primary header first, at the start of the file:
\* "package" when present, otherwise "project"; every other top-level key
\* (also "project" when both exist) is emitted after it, none omitted.
C1_PrimaryFirst ==
    (last.op = "write_to_file" /\ HasPrimary(last.prev)) =>
        LET hdr == IF "package" \in DOMAIN last.prev THEN "package" ELSE "project"
        IN  /\ last.status = "Ok"
            /\ Len(last.out) >= 1
            /\ last.out[1] = Header(<<hdr>>)
            /\ Len(file) >= 1 /\ file[1] = Header(<<hdr>>)
            /\ \A k \in (DOMAIN last.prev) \ {hdr} :
                  \E i \in 2..Len(last.out) : EmitsKey(last.out[i], k, last.prev[k])

\* C1 witness: a write of a manifest with both "package" and "project" and
\* a key ("dependencies") that the mapping iterates before them
C1_Witness ==
    /\ last.op = "write_to_file"
    /\ last.status = "Ok"
    /\ {"dependencies", "package", "project"} \subseteq DOMAIN last.prev

\* C2: a manifest parsed and written without mutation is parsed again from
\* the written text as the same document: no key, table or value lost,
\* moved or altered.
C2_RoundTrip ==
    (last.op = "write_to_file" /\ last.status = "Ok" /\ ~mutated) =>
        /\ from_str(last.out).status = "Ok"
        /\ from_str(last.out).manifest.data = manifest.data

\* the table stored at top-level key t, or the empty table
TableAt(d, t) == IF t \in DOMAIN d THEN d[t].t ELSE EmptyTable

Conflict(d, t) == t \in DOMAIN d /\ ~IsTable(d[t])

\* C3: a successful insert_into_table(t, (n, s)), or add_deps of that one
\* entry, leaves data[t] the table stored before (empty if absent) with n
\* mapped to s, every other entry of it and every other top-level key as
\* before; the same insertion done again changes nothing.
C3_InsertSetsEntry ==
    (/\ last.op \in {"insert_into_table", "add_deps"}
     /\ Len(last.deps) = 1
     /\ last.status = "Ok") =>
        LET t == last.table
            n == last.deps[1][1]
            s == last.deps[1][2]
            d == manifest.data
            old == TableAt(last.prev, t)
        IN  /\ t \in DOMAIN d /\ IsTable(d[t])
            /\ DOMAIN d[t].t = (DOMAIN old) \cup {n}
            /\ d[t].t[n] = s
            /\ \A m \in (DOMAIN old) \ {n} : d[t].t[m] = old[m]
            /\ DOMAIN d = (DOMAIN last.prev) \cup {t}
            /\ \A k \in (DOMAIN last.prev) \ {t} : d[k] = last.prev[k]
            /\ insert_into_table(d, t, last.deps[1]) = [status |-> "Ok", data |-> d]
            /\ add_deps(d, t, last.deps).status = "Ok"
            /\ add_deps(d, t, last.deps).data = d

\* C3 witness: an insertion that replaced an entry of a table holding
\* another entry too
C3_Witness ==
    /\ last.op = "insert_into_table"
    /\ last.status = "Ok"
    /\ last.table \in DOMAIN last.prev
    /\ last.deps[1][1] \in DOMAIN TableAt(last.prev, last.table)
    /\ TableAt(last.prev, last.table)[last.deps[1][1]] # last.deps[1][2]
    /\ Cardinality(DOMAIN TableAt(last.prev, last.table)) >= 2

\* C4: insert_into_table(t, dep) with a value at t that is not a table
\* fails with ManifestError and leaves the whole document as it was.
C4_ConflictUnchanged ==
    (last.op = "insert_into_table" /\ Conflict(last.prev, last.table)) =>
        /\ last.status = "ManifestError"
        /\ manifest.data = last.prev

\* C4 witness: an insertion into a key that holds a string
C4_Witness ==
    /\ last.op = "insert_into_table"
    /\ Conflict(last.prev, last.table)
    /\ Cardinality(DOMAIN last.prev) >= 2

\* the names of a dependency list, and the value the last entry for a name
\* carries
DepNames(deps) == {deps[i][1] : i \in 1..Len(deps)}

LastSpec(deps, n) ==
    LET is == {i \in 1..Len(deps) : deps[i][1] = n}
        i == CHOOSE j \in is : \A k \in is : k <= j
    IN  deps[i][2]

Max(S) == CHOOSE x \in S : \A y \in S : y <= x

\* C6: find from a starting directory D, given or the working directory,
\* returns the target file of the nearest directory among D and its
\* ancestors that has it, and fails, with ManifestError, exactly when none
\* has it.
C6_FindNearest ==
    (/\ found.op \in {"find_file", "find_lock_file"}
     /\ found.specified.some => Metadata(fsFiles, cwd, found.specified.path) = "dir") =>
        LET D == IF found.specified.some THEN Resolve(cwd, found.specified.path)
                 ELSE cwd
            name == FileName(found.file)
            holders == {k \in 0..Len(D) : Append(SubSeq(D, 1, k), name) \in fsFiles}
        IN  IF holders # {}
              THEN /\ found.status = "Ok"
                   /\ Resolve(cwd, found.result)
                        = Append(SubSeq(D, 1, Max(holders)), name)
              ELSE found.status = "ManifestError"

\* C7: with a path specified at which nothing exists, find_file,
\* find_lock_file, open and open_lock_file fail with the I/O error: no file
\* is returned, opened or parsed, whatever the ancestors of the path hold.
C7_MissingPathIoError ==
    (/\ found.op # "none"
     /\ found.specified.some
     /\ \/ found.specified.path = NoPath
        \/ Resolve(cwd, found.specified.path) \notin (fsFiles \cup Dirs)) =>
        /\ found.status = "IoError"
        /\ found.result = NoPath
        /\ ~found.parsed
        /\ ~handle.open
        /\ ~manifest.some

\* C7 witness: open of a missing path below a directory that has Cargo.toml
C7_Witness ==
    /\ found.op = "open"
    /\ found.specified.some
    /\ found.specified.path.comps # <<>>
    /\ Resolve(cwd, found.specified.path) \notin (fsFiles \cup Dirs)
    /\ \E k \in 0..(Len(Resolve(cwd, found.specified.path)) - 1) :
          Append(SubSeq(Resolve(cwd, found.specified.path), 1, k), "Cargo.toml")
              \in fsFiles
    /\ found.status = "IoError"

\* C8: write_to_file never changes the Manifest's data; with neither
\* "package" nor "project" at the top level it fails with ManifestError and
\* writes nothing, the file staying as it was.
C8_NoPrimaryNoWrite ==
    (last.op = "write_to_file") =>
        /\ manifest.data = last.prev
        /\ ~HasPrimary(last.prev) =>
              /\ last.status = "ManifestError"
              /\ last.out = <<>>
              /\ file = last.fprev

\* C8 witness: a write of a parsed document that has a dependency table and
\* no primary section, on a file that is not empty
C8_Witness ==
    /\ last.op = "write_to_file"
    /\ ~HasPrimary(last.prev)
    /\ "dependencies" \in DOMAIN last.prev
    /\ last.status = "ManifestError"
    /\ file # <<>>

\* C9: after a successful write_to_file the file holds exactly the text
\* written: its length is the length of the new content.
C9_ExactContent ==
    (last.op = "write_to_file" /\ last.status = "Ok") => file = last.out

\* C10 as stated: when the parser fails, from_str returns the first error
\* the parser reported.
C10_FirstError ==
    (last.op = "open" /\ last.perrs # <<>>) =>
        /\ last.status = "ParseError"
        /\ last.err = Head(last.perrs)
        /\ ~manifest.some

\* C10 amended: when the parser fails, from_str returns the last error the
\* parser reported (errors.pop()), and never a Manifest.
C10_LastError ==
    (last.op = "open" /\ last.perrs # <<>>) =>
        /\ last.status = "ParseError"
        /\ last.err = last.perrs[Len(last.perrs)]
        /\ ~manifest.some

\* C10 witness: a text on which the parser reported two different errors
C10_Witness ==
    /\ last.op = "open"
    /\ Len(last.perrs) >= 2
    /\ Head(last.perrs) # last.perrs[Len(last.perrs)]
    /\ last.status = "ParseError"

====
